---- MODULE Spec2Model ----
(***************************************************************************)
(* Model of the Prometheus text encoder of src/sinks/prometheus/           *)
(* collector.rs: MetricCollector::encode_metric (the value-shape           *)
(* dispatcher), StringCollector::emit, encode_tags and encode_header.      *)
(*                                                                         *)
(* Representation.                                                         *)
(*  - A Rust String is a sequence of one-character strings; Ord gives the  *)
(*    byte of a character, so that str's Ord (bytewise lexicographic) can  *)
(*    be computed.                                                         *)
(*  - An f64 is modelled by the integer h that stands for the finite       *)
(*    value h/2 (so 5 is 2.5 and 20 is 10.0).  Sums and products of such   *)
(*    values with integer weights are exact in f64 within the bounds of    *)
(*    the model.  NaN and the infinities are outside the modelled domain.  *)
(*  - Sample weights and counts are natural numbers far below the width of *)
(*    the integer type that holds them, so no addition wraps.              *)
(*  - Option<T> is a sequence of length at most one: None is <<>> and      *)
(*    Some(x) is <<x>>.                                                    *)
(*  - A BTreeMap<String, String> is the sequence of its <<key, value>>     *)
(*    entries in ascending key order, which is its iteration order.        *)
(***************************************************************************)
EXTENDS Integers, Sequences, FiniteSets, TLC

VARIABLES
    namespace,   \* argument Option<&str> of encode_header / encode_metric
    buckets,     \* argument &[f64] of encode_metric
    quantiles,   \* argument &[f64] of encode_metric
    expired,     \* argument bool of encode_metric
    metric,      \* argument &Metric
    supplied,    \* the Vec of pairs the metric's tag map was collected from
    statistic,   \* what DistributionStatistic::new returns for this metric
    result,      \* StringCollector::result, the output buffer
    ops,         \* the operations called on the collector so far
    before,      \* the buffer as it was before the last operation
    emits,       \* the emit calls made by the last operation, in order
    state,       \* top::state::updater: the State map owned by the task
    rx,          \* the events queued in the mpsc channel, oldest first
    senders,     \* whether an EventTx of the channel is still alive
    task,        \* the spawned task: "idle", "running" or "panicked"
    broadcast,   \* the snapshots passed to sender.send, in order
    initial,     \* the State the updater was started with
    received     \* the events rx.recv() has returned, in order

vars == <<namespace, buckets, quantiles, expired, metric, supplied, statistic,
          result, ops, before, emits>>

inputs == <<namespace, buckets, quantiles, expired, metric, supplied, statistic>>

topVars == <<state, rx, senders, task, broadcast, initial, received>>

allVars == <<vars, topVars>>

(***************************************************************************)
(* Bounds of the model.                                                    *)
(***************************************************************************)
MaxCalls == 2      \* operations on one collector
MaxSamples == 3    \* samples of a Distribution
MaxTags == 2       \* entries of a tag map
MaxEvents == 3     \* events sent to the updater
MaxQueue == 2      \* events waiting in the mpsc channel

(***************************************************************************)
(* Option                                                                  *)
(***************************************************************************)
None == <<>>
Some(x) == <<x>>
IsSome(o) == Len(o) = 1
Unwrap(o) == o[1]

(***************************************************************************)
(* Strings                                                                 *)
(***************************************************************************)
AsciiTable ==
    << " ", "!", "\"", "#", "$", "%", "&", "'", "(", ")", "*", "+", ",", "-",
       ".", "/", "0", "1", "2", "3", "4", "5", "6", "7", "8", "9", ":", ";",
       "<", "=", ">", "?", "@", "A", "B", "C", "D", "E", "F", "G", "H", "I",
       "J", "K", "L", "M", "N", "O", "P", "Q", "R", "S", "T", "U", "V", "W",
       "X", "Y", "Z", "[", "\\", "]", "^", "_", "GRAVE", "a", "b", "c", "d", "e",
       "f", "g", "h", "i", "j", "k", "l", "m", "n", "o", "p", "q", "r", "s",
       "t", "u", "v", "w", "x", "y", "z", "{", "|", "}", "~" >>

\* (bytes 32..126 in order; the grave accent, byte 96, which the lexer of
\* TLA+ does not accept in a string, is held by a placeholder.)

Chars == {AsciiTable[i] : i \in 1..Len(AsciiTable)} \cup {"\n"}

\* The byte of a character.
Ord == [c \in Chars |->
          IF c = "\n" THEN 10
          ELSE 31 + (CHOOSE i \in 1..Len(AsciiTable) : AsciiTable[i] = c)]

\* str::cmp: bytewise lexicographic, a proper prefix is smaller.
RECURSIVE StrLess(_, _)
StrLess(a, b) ==
    IF b = <<>> THEN FALSE
    ELSE IF a = <<>> THEN TRUE
    ELSE IF Ord[Head(a)] # Ord[Head(b)] THEN Ord[Head(a)] < Ord[Head(b)]
    ELSE StrLess(Tail(a), Tail(b))

StrLeq(a, b) == a = b \/ StrLess(a, b)

\* [String]::join(sep)
RECURSIVE Join(_, _)
Join(parts, sep) ==
    IF parts = <<>> THEN <<>>
    ELSE IF Len(parts) = 1 THEN parts[1]
    ELSE parts[1] \o sep \o Join(Tail(parts), sep)

\* Vec<String>::sort: the ascending arrangement of the elements (stable;
\* equal strings are indistinguishable).  Computed by insertion.
RECURSIVE InsertSorted(_, _)
InsertSorted(sorted, s) ==
    IF sorted = <<>> THEN <<s>>
    ELSE IF StrLess(s, Head(sorted)) THEN <<s>> \o sorted
    ELSE <<Head(sorted)>> \o InsertSorted(Tail(sorted), s)

RECURSIVE SortStrings(_)
SortStrings(parts) ==
    IF parts = <<>> THEN <<>>
    ELSE InsertSorted(SortStrings(SubSeq(parts, 1, Len(parts) - 1)),
                      parts[Len(parts)])

(***************************************************************************)
(* Numbers                                                                 *)
(***************************************************************************)
\* `c as f64` for an integer c
AsF64(c) == 2 * c

DigitChar(d) == AsciiTable[17 + d]

RECURSIVE Digits(_)
Digits(n) ==
    IF n < 10 THEN <<DigitChar(n)>>
    ELSE Digits(n \div 10) \o <<DigitChar(n % 10)>>

\* f64's Display, as used by `{}` and to_string(): an integral value prints
\* without a fractional part (10.0 is "10"), otherwise the shortest decimal
\* that round-trips (2.5 is "2.5").
F64ToString(h) ==
    LET abs == IF h < 0 THEN 0 - h ELSE h
    IN  (IF h < 0 THEN <<"-">> ELSE <<>>)
        \o Digits(abs \div 2)
        \o (IF abs % 2 = 1 THEN <<".", "5">> ELSE <<>>)

(***************************************************************************)
(* BTreeMap<String, String>                                                *)
(***************************************************************************)
\* BTreeMap::insert: the entry replaces one of the same key, and the
\* entries stay in ascending key order.
RECURSIVE BTreeInsert(_, _)
BTreeInsert(map, kv) ==
    IF map = <<>> THEN <<kv>>
    ELSE IF Head(map)[1] = kv[1] THEN <<kv>> \o Tail(map)
    ELSE IF StrLess(kv[1], Head(map)[1]) THEN <<kv>> \o map
    ELSE <<Head(map)>> \o BTreeInsert(Tail(map), kv)

\* vec.into_iter().collect::<BTreeMap<_, _>>()
RECURSIVE BTreeCollect(_)
BTreeCollect(pairs) ==
    IF pairs = <<>> THEN <<>>
    ELSE BTreeInsert(BTreeCollect(SubSeq(pairs, 1, Len(pairs) - 1)),
                     pairs[Len(pairs)])

(***************************************************************************)
(* sinks::util::encode_namespace                                           *)
(***************************************************************************)
encode_namespace(ns, delimiter, name) ==
    IF IsSome(ns) /\ Unwrap(ns) # <<>>
    THEN Unwrap(ns) \o <<delimiter>> \o name
    ELSE name

(***************************************************************************)
(* StringCollector                                                         *)
(***************************************************************************)
\* format!("{}=\"{}\"", name, value)
FormatTag(name, value) == name \o <<"=", "\"">> \o value \o <<"\"">>

\* An encode_tags that leaves out `parts.sort()`.
encode_tags_unsorted(tags, extra) ==
    IF ~IsSome(tags) /\ ~IsSome(extra) THEN <<>>
    ELSE IF ~IsSome(tags)
    THEN <<"{">> \o FormatTag(Unwrap(extra)[1], Unwrap(extra)[2]) \o <<"}">>
    ELSE LET map == Unwrap(tags)
             mapped == [i \in 1..Len(map) |-> FormatTag(map[i][1], map[i][2])]
             parts == IF IsSome(extra)
                      THEN Append(mapped,
                                  FormatTag(Unwrap(extra)[1], Unwrap(extra)[2]))
                      ELSE mapped
         IN  <<"{">> \o Join(parts, <<",">>) \o <<"}">>

\* StringCollector::encode_tags: the text it appends.
encode_tags(tags, extra) ==
    IF ~IsSome(tags) /\ ~IsSome(extra) THEN <<>>
    ELSE IF ~IsSome(tags)
    THEN <<"{">> \o FormatTag(Unwrap(extra)[1], Unwrap(extra)[2]) \o <<"}">>
    ELSE LET map == Unwrap(tags)
             mapped == [i \in 1..Len(map) |-> FormatTag(map[i][1], map[i][2])]
             parts == IF IsSome(extra)
                      THEN Append(mapped,
                                  FormatTag(Unwrap(extra)[1], Unwrap(extra)[2]))
                      ELSE mapped
         IN  <<"{">> \o Join(SortStrings(parts), <<",">>) \o <<"}">>

\* One call of MetricCollector::emit, as a record of its arguments.
EmitCall(timestamp, name, suffix, value, tags, extra) ==
    [timestamp |-> timestamp, name |-> name, suffix |-> suffix,
     value |-> value, tags |-> tags, extra |-> extra]

\* StringCollector::emit: the line it appends for one call.
emit(e) ==
    e.name \o e.suffix \o encode_tags(e.tags, e.extra)
    \o <<" ">> \o F64ToString(e.value) \o <<"\n">>

RECURSIVE EmitAll(_, _)
EmitAll(buffer, calls) ==
    IF calls = <<>> THEN buffer
    ELSE EmitAll(buffer \o emit(Head(calls)), Tail(calls))

(***************************************************************************)
(* Text constants of the encoder                                           *)
(***************************************************************************)
NoSuffix == <<>>
SuffixBucket == <<"_", "b", "u", "c", "k", "e", "t">>
SuffixSum == <<"_", "s", "u", "m">>
SuffixCount == <<"_", "c", "o", "u", "n", "t">>
SuffixMin == <<"_", "m", "i", "n">>
SuffixMax == <<"_", "m", "a", "x">>
SuffixAvg == <<"_", "a", "v", "g">>
TagLe == <<"l", "e">>
TagQuantile == <<"q", "u", "a", "n", "t", "i", "l", "e">>
PlusInf == <<"+", "I", "n", "f">>

(***************************************************************************)
(* MetricCollector::encode_metric                                          *)
(***************************************************************************)
Min(a, b) == IF a < b THEN a ELSE b

\* a.iter().zip(b.iter()): pairs up to the shorter of the two
Zip(a, b) == [i \in 1..Min(Len(a), Len(b)) |-> <<a[i], b[i]>>]

\* A skip_while that also drops the bucket whose bound equals the value.
RECURSIVE SkipWhileLeq(_, _)
SkipWhileLeq(bs, v) ==
    IF bs = <<>> THEN 0
    ELSE IF Head(bs) <= v THEN 1 + SkipWhileLeq(Tail(bs), v)
    ELSE 0

\* How many leading buckets skip_while(|&(_, b)| b < v) drops.
RECURSIVE SkipWhileLess(_, _)
SkipWhileLess(bs, v) ==
    IF bs = <<>> THEN 0
    ELSE IF Head(bs) < v THEN 1 + SkipWhileLess(Tail(bs), v)
    ELSE 0

\* A turn of the loop that counts the sample in its own bucket only.
AccumulateSampleOwnBucket(acc, bs, v, c) ==
    LET skipped == SkipWhileLess(bs, v)
    IN  [counts |-> [i \in 1..Len(bs) |->
                        IF i = skipped + 1 THEN acc.counts[i] + c
                        ELSE acc.counts[i]],
         sum |-> acc.sum + v * c,
         count |-> acc.count + c]

\* One turn of the loop over the samples: every bucket that skip_while
\* leaves gets the weight, then sum and count are advanced.
AccumulateSample(acc, bs, v, c) ==
    LET skipped == SkipWhileLess(bs, v)
    IN  [counts |-> [i \in 1..Len(bs) |->
                        IF i > skipped THEN acc.counts[i] + c
                        ELSE acc.counts[i]],
         sum |-> acc.sum + v * c,
         count |-> acc.count + c]

RECURSIVE Accumulate(_, _, _)
Accumulate(acc, samples, bs) ==
    IF samples = <<>> THEN acc
    ELSE Accumulate(AccumulateSample(acc, bs, Head(samples)[1], Head(samples)[2]),
                    Tail(samples), bs)

\* Distribution, StatisticKind::Histogram
EncodeDistributionHistogram(ts, name, tags, values, sample_rates, bs) ==
    LET acc == Accumulate([counts |-> [i \in 1..Len(bs) |-> 0],
                           sum |-> 0, count |-> 0],
                          Zip(values, sample_rates), bs)
        zipped == Zip(bs, acc.counts)
    IN  [i \in 1..Len(zipped) |->
            EmitCall(ts, name, SuffixBucket, AsF64(zipped[i][2]), tags,
                     Some(<<TagLe, F64ToString(zipped[i][1])>>))]
        \o << EmitCall(ts, name, SuffixBucket, AsF64(acc.count), tags,
                       Some(<<TagLe, PlusInf>>)),
              EmitCall(ts, name, SuffixSum, acc.sum, tags, None),
              EmitCall(ts, name, SuffixCount, AsF64(acc.count), tags, None) >>

\* sinks::util::statistic::DistributionStatistic::new, a routine outside
\* the encoder: whatever it returns for the metric at hand.
DistributionStatisticNew(values, sample_rates, qs) == statistic

\* A Summary encoder that omits the series when there is no statistic.
EncodeDistributionSummaryOrNothing(ts, name, tags, values, sample_rates, qs) ==
    LET stat == DistributionStatisticNew(values, sample_rates, qs)
    IN  IF IsSome(stat)
        THEN LET st == Unwrap(stat)
             IN  [i \in 1..Len(st.quantiles) |->
                     EmitCall(ts, name, NoSuffix, st.quantiles[i][2], tags,
                              Some(<<TagQuantile,
                                     F64ToString(st.quantiles[i][1])>>))]
                 \o << EmitCall(ts, name, SuffixSum, st.sum, tags, None),
                       EmitCall(ts, name, SuffixCount, AsF64(st.count), tags, None),
                       EmitCall(ts, name, SuffixMin, st.min, tags, None),
                       EmitCall(ts, name, SuffixMax, st.max, tags, None),
                       EmitCall(ts, name, SuffixAvg, st.avg, tags, None) >>
        ELSE <<>>

\* Distribution, StatisticKind::Summary
EncodeDistributionSummary(ts, name, tags, values, sample_rates, qs) ==
    LET stat == DistributionStatisticNew(values, sample_rates, qs)
    IN  IF IsSome(stat)
        THEN LET st == Unwrap(stat)
             IN  [i \in 1..Len(st.quantiles) |->
                     EmitCall(ts, name, NoSuffix, st.quantiles[i][2], tags,
                              Some(<<TagQuantile,
                                     F64ToString(st.quantiles[i][1])>>))]
                 \o << EmitCall(ts, name, SuffixSum, st.sum, tags, None),
                       EmitCall(ts, name, SuffixCount, AsF64(st.count), tags, None),
                       EmitCall(ts, name, SuffixMin, st.min, tags, None),
                       EmitCall(ts, name, SuffixMax, st.max, tags, None),
                       EmitCall(ts, name, SuffixAvg, st.avg, tags, None) >>
        ELSE << EmitCall(ts, name, SuffixSum, 0, tags, None),
                EmitCall(ts, name, SuffixCount, 0, tags, None) >>

\* An AggregatedHistogram encoder that accumulates the counts as it emits.
EncodeAggregatedHistogramCumulative(ts, name, tags, v) ==
    LET zipped == Zip(v.buckets, v.counts)
        RunningSum[i \in 0..Len(zipped)] ==
            IF i = 0 THEN 0 ELSE RunningSum[i - 1] + zipped[i][2]
    IN  [i \in 1..Len(zipped) |->
            EmitCall(ts, name, SuffixBucket, AsF64(RunningSum[i]), tags,
                     Some(<<TagLe, F64ToString(zipped[i][1])>>))]
        \o << EmitCall(ts, name, SuffixBucket, AsF64(v.count), tags,
                       Some(<<TagLe, PlusInf>>)),
              EmitCall(ts, name, SuffixSum, v.sum, tags, None),
              EmitCall(ts, name, SuffixCount, AsF64(v.count), tags, None) >>

\* AggregatedHistogram
EncodeAggregatedHistogram(ts, name, tags, v) ==
    LET zipped == Zip(v.buckets, v.counts)
    IN  [i \in 1..Len(zipped) |->
            EmitCall(ts, name, SuffixBucket, AsF64(zipped[i][2]), tags,
                     Some(<<TagLe, F64ToString(zipped[i][1])>>))]
        \o << EmitCall(ts, name, SuffixBucket, AsF64(v.count), tags,
                       Some(<<TagLe, PlusInf>>)),
              EmitCall(ts, name, SuffixSum, v.sum, tags, None),
              EmitCall(ts, name, SuffixCount, AsF64(v.count), tags, None) >>

\* An AggregatedSummary encoder whose _sum and _count lose the tags.
EncodeAggregatedSummaryBareTotals(ts, name, tags, v) ==
    LET zipped == Zip(v.quantiles, v.values)
    IN  [i \in 1..Len(zipped) |->
            EmitCall(ts, name, NoSuffix, zipped[i][2], tags,
                     Some(<<TagQuantile, F64ToString(zipped[i][1])>>))]
        \o << EmitCall(ts, name, SuffixSum, v.sum, None, None),
              EmitCall(ts, name, SuffixCount, AsF64(v.count), None, None) >>

\* AggregatedSummary
EncodeAggregatedSummary(ts, name, tags, v) ==
    LET zipped == Zip(v.quantiles, v.values)
    IN  [i \in 1..Len(zipped) |->
            EmitCall(ts, name, NoSuffix, zipped[i][2], tags,
                     Some(<<TagQuantile, F64ToString(zipped[i][1])>>))]
        \o << EmitCall(ts, name, SuffixSum, v.sum, tags, None),
              EmitCall(ts, name, SuffixCount, AsF64(v.count), tags, None) >>

\* A Set value that does not look at the expired flag.
SetValueNeverExpired(exp, values) == Cardinality(values)

\* Set: `if expired { 0 } else { values.len() }`
SetValue(exp, values) == IF exp THEN 0 ELSE Cardinality(values)

\* MetricKind::is_absolute
IsAbsolute(kind) == kind = "Absolute"

\* `match &metric.value { ... }`: the emit calls of each value shape.
EncodeValue(ts, name, tags, bs, qs, exp, v) ==
    CASE v.type = "Counter" ->
            << EmitCall(ts, name, NoSuffix, v.value, tags, None) >>
      [] v.type = "Gauge" ->
            << EmitCall(ts, name, NoSuffix, v.value, tags, None) >>
      [] v.type = "Set" ->
            << EmitCall(ts, name, NoSuffix, AsF64(SetValue(exp, v.values)),
                        tags, None) >>
      [] v.type = "Distribution" /\ v.statistic = "Histogram" ->
            EncodeDistributionHistogram(ts, name, tags, v.values,
                                        v.sample_rates, bs)
      [] v.type = "Distribution" /\ v.statistic = "Summary" ->
            EncodeDistributionSummary(ts, name, tags, v.values,
                                      v.sample_rates, qs)
      [] v.type = "AggregatedHistogram" ->
            EncodeAggregatedHistogram(ts, name, tags, v)
      [] v.type = "AggregatedSummary" ->
            EncodeAggregatedSummary(ts, name, tags, v)

\* metric.timestamp.map(|t| t.timestamp()).unwrap_or(0)
TimestampOf(m) == IF IsSome(m.timestamp) THEN Unwrap(m.timestamp) ELSE 0

\* A dispatcher that forgets the kind of the metric.
encode_metric_any_kind(ns, bs, qs, exp, m) ==
    EncodeValue(TimestampOf(m), encode_namespace(ns, "_", m.name), m.tags,
                bs, qs, exp, m.value)

\* The emit calls of one encode_metric call, in order.
encode_metric(ns, bs, qs, exp, m) ==
    IF IsAbsolute(m.kind)
    THEN EncodeValue(TimestampOf(m), encode_namespace(ns, "_", m.name), m.tags,
                     bs, qs, exp, m.value)
    ELSE <<>>

(***************************************************************************)
(* StringCollector::encode_header                                          *)
(***************************************************************************)
TypeCounter == <<"c", "o", "u", "n", "t", "e", "r">>
TypeGauge == <<"g", "a", "u", "g", "e">>
TypeHistogram == <<"h", "i", "s", "t", "o", "g", "r", "a", "m">>
TypeSummary == <<"s", "u", "m", "m", "a", "r", "y">>
HelpPrefix == <<"#", " ", "H", "E", "L", "P", " ">>
TypePrefix == <<"#", " ", "T", "Y", "P", "E", " ">>

\* A type table that declares every Distribution a histogram.
HeaderTypeByShape(v) ==
    CASE v.type = "Counter" -> TypeCounter
      [] v.type = "Gauge" -> TypeGauge
      [] v.type = "Distribution" -> TypeHistogram
      [] v.type = "Set" -> TypeGauge
      [] v.type = "AggregatedHistogram" -> TypeHistogram
      [] v.type = "AggregatedSummary" -> TypeSummary

\* `match &metric.value` of encode_header: the declared type of each shape.
HeaderType(v) ==
    CASE v.type = "Counter" -> TypeCounter
      [] v.type = "Gauge" -> TypeGauge
      [] v.type = "Distribution" /\ v.statistic = "Histogram" -> TypeHistogram
      [] v.type = "Distribution" /\ v.statistic = "Summary" -> TypeSummary
      [] v.type = "Set" -> TypeGauge
      [] v.type = "AggregatedHistogram" -> TypeHistogram
      [] v.type = "AggregatedSummary" -> TypeSummary

\* The text encode_header appends.
encode_header(ns, m) ==
    LET name == m.name
        fullname == encode_namespace(ns, "_", name)
    IN  HelpPrefix \o fullname \o <<" ">> \o name \o <<"\n">>
        \o TypePrefix \o fullname \o <<" ">> \o HeaderType(m.value) \o <<"\n">>

(***************************************************************************)
(* The inputs of the model                                                 *)
(***************************************************************************)
NameHits == <<"h", "i", "t", "s">>
NsVector == <<"v", "e", "c", "t", "o", "r">>

\* Option<&str> namespaces: absent, empty, "vector"
Namespaces == {None, Some(<<>>), Some(NsVector)}

\* metric.timestamp as Option of seconds
Timestamps == {None, Some(7)}

Kinds == {"Absolute", "Incremental"}

\* The tag pairs metrics are built from.  "code2" follows "code" as a key
\* and precedes it once formatted ('2' is below '='); "zone" sorts after
\* the synthesized tags "le" and "quantile", "code" before them.
TagPairs ==
    { << <<"c", "o", "d", "e">>, <<"2", "0", "0">> >>,
      << <<"c", "o", "d", "e", "2">>, <<"x">> >>,
      << <<"l", "e">>, <<"1">> >>,
      << <<"z", "o", "n", "e">>, <<"a">> >> }

\* Vecs of pairs with distinct keys, in any order
TagVecs ==
    UNION { { s \in [1..n -> TagPairs] :
                \A i, j \in 1..n : i # j => s[i][1] # s[j][1] } : n \in 0..MaxTags }

\* the tags() of the tests: one pair, code="200"
TestTags == << << <<"c", "o", "d", "e">>, <<"2", "0", "0">> >> >>

\* f64 values (in halves): -1.5, 0, 2.5, 10
F64Values == {0 - 3, 0, 5, 20}

\* sample values 1.0, 2.5, 3.0; lists of bucket bounds, among them the
\* [0, 2.5, 5] of the tests, one that is not ascending and one that repeats
\* a bound
SampleValues == {2, 5, 6}
Weights == {1, 3}
BucketLists ==
    { <<>>, <<0>>, <<0, 5>>, <<2, 5>>, <<0, 5, 10>>, <<5, 0>>, <<5, 5>> }

SampleVecs(n) == [1..n -> SampleValues] \X [1..n -> Weights]

SetMembers == { <<"f", "o", "o">>, <<"b", "a", "r">> }

MetricOf(ts, sup, kind, value) ==
    [name |-> NameHits, timestamp |-> ts,
     tags |-> IF IsSome(sup) THEN Some(BTreeCollect(Unwrap(sup))) ELSE None,
     kind |-> kind, value |-> value]

Input(ns, bs, qs, exp, ts, sup, kind, value, stat) ==
    [namespace |-> ns, buckets |-> bs, quantiles |-> qs, expired |-> exp,
     metric |-> MetricOf(ts, sup, kind, value), supplied |-> sup,
     statistic |-> stat]

CounterValue(x) == [type |-> "Counter", value |-> x]
GaugeValue(x) == [type |-> "Gauge", value |-> x]
SetOf(xs) == [type |-> "Set", values |-> xs]
Distribution(vs, rs, st) ==
    [type |-> "Distribution", values |-> vs, sample_rates |-> rs, statistic |-> st]
AggregatedHistogram(bs, cs, c, sm) ==
    [type |-> "AggregatedHistogram", buckets |-> bs, counts |-> cs,
     count |-> c, sum |-> sm]
AggregatedSummary(qs, vs, c, sm) ==
    [type |-> "AggregatedSummary", quantiles |-> qs, values |-> vs,
     count |-> c, sum |-> sm]

ScalarValues ==
    {CounterValue(x) : x \in F64Values} \cup {GaugeValue(x) : x \in F64Values}
    \cup {SetOf(xs) : xs \in SUBSET SetMembers}

AggregatedHistograms ==
    UNION { { AggregatedHistogram(SubSeq(<<2, 5, 6>>, 1, n), cs, 6, 25) :
                cs \in [1..n -> {1, 2, 3}] } : n \in 0..3 }

AggregatedSummaries ==
    UNION { { AggregatedSummary(SubSeq(<<0, 1, 2>>, 1, n), vs, 6, 24) :
                vs \in [1..n -> {3, 4}] } : n \in 0..3 }

\* Results of DistributionStatistic::new: nothing, or a statistic whose
\* quantiles are any list of (quantile, value) pairs.
StatisticResults ==
    {None} \cup
    UNION { { Some([quantiles |-> qv, sum |-> 30, count |-> 8,
                    min |-> 2, max |-> 6, avg |-> 4]) :
                qv \in [1..n -> {<<1, 4>>, <<2, 6>>}] } : n \in 0..2 }

SomeTags == {None, Some(TestTags)}
ExternalLists == { <<<<>>, <<>>>>, <<<<0, 5>>, <<1>>>> }

\* Few values, every arrangement of the tags.
TagInputs ==
    { Input(ns, <<>>, <<>>, FALSE, None, sup, kind, value, None) :
        ns \in Namespaces, sup \in {None} \cup {Some(t) : t \in TagVecs},
        kind \in Kinds,
        value \in { CounterValue(20),
                    AggregatedHistogram(<<2>>, <<1>>, 1, 2),
                    AggregatedSummary(<<1>>, <<3>>, 1, 3) } }

ScalarInputs ==
    { Input(ns, ext[1], ext[2], exp, ts, sup, kind, value, None) :
        ns \in {None, Some(NsVector)}, ext \in ExternalLists,
        exp \in BOOLEAN, ts \in Timestamps, sup \in SomeTags, kind \in Kinds,
        value \in ScalarValues }

HistogramInputs ==
    UNION { { Input(None, bs, <<>>, FALSE, None, sup, kind,
                    Distribution(vr[1], vr[2], "Histogram"), None) :
                bs \in BucketLists, sup \in SomeTags, kind \in Kinds,
                vr \in SampleVecs(n) } : n \in 0..MaxSamples }

SummaryInputs ==
    { Input(None, <<>>, qs, FALSE, None, sup, kind,
            Distribution(vr[1], vr[2], "Summary"), stat) :
        qs \in { <<>>, <<1>>, <<1, 2>> }, sup \in SomeTags, kind \in Kinds,
        vr \in { <<<<>>, <<>>>>, <<<<2>>, <<3>>>>, <<<<2, 6>>, <<3, 1>>>> },
        stat \in StatisticResults }

AggregatedInputs ==
    { Input(None, ext[1], ext[2], FALSE, None, sup, kind, value, None) :
        ext \in ExternalLists, sup \in SomeTags, kind \in Kinds,
        value \in AggregatedHistograms \cup AggregatedSummaries }

Inputs ==
    TagInputs \cup ScalarInputs \cup HistogramInputs \cup SummaryInputs
    \cup AggregatedInputs

\* Tag pairs with a value that holds the characters the renderer writes
\* around values: the value of the first pair reads 1",b="2.
QuotedPairs ==
    { << <<"a">>, <<"1", "\"", ",", "b", "=", "\"", "2">> >>,
      << <<"a">>, <<"1">> >>,
      << <<"b">>, <<"2">> >> }

QuotedVecs ==
    UNION { { s \in [1..n -> QuotedPairs] :
                \A i, j \in 1..n : i # j => s[i][1] # s[j][1] } : n \in 0..MaxTags }

QuotedInputs ==
    { Input(None, <<>>, <<>>, FALSE, None, sup, kind, value, None) :
        sup \in {None} \cup {Some(t) : t \in QuotedVecs}, kind \in Kinds,
        value \in { CounterValue(20),
                    AggregatedHistogram(<<2>>, <<1>>, 1, 2),
                    AggregatedSummary(<<1>>, <<3>>, 1, 3) } }

(***************************************************************************)
(* The state machine                                                       *)
(***************************************************************************)
\* The dashboard updater of top/state.rs is not started.
TopIdle ==
    /\ state = <<>>
    /\ rx = <<>>
    /\ senders = FALSE
    /\ task = "idle"
    /\ broadcast = <<>>
    /\ initial = <<>>
    /\ received = <<>>

\* StringCollector::new, and the arguments the collector is used with.
Init ==
    /\ \E inp \in Inputs :
          /\ namespace = inp.namespace
          /\ buckets = inp.buckets
          /\ quantiles = inp.quantiles
          /\ expired = inp.expired
          /\ metric = inp.metric
          /\ supplied = inp.supplied
          /\ statistic = inp.statistic
    /\ result = <<>>
    /\ ops = <<>>
    /\ before = <<>>
    /\ emits = <<>>
    /\ TopIdle

\* s.encode_header(namespace, metric)
EncodeHeader ==
    /\ Len(ops) < MaxCalls
    /\ result' = result \o encode_header(namespace, metric)
    /\ before' = result
    /\ emits' = <<>>
    /\ ops' = Append(ops, "encode_header")
    /\ UNCHANGED inputs
    /\ UNCHANGED topVars

\* s.encode_metric(namespace, buckets, quantiles, expired, metric)
EncodeMetric ==
    /\ Len(ops) < MaxCalls
    /\ LET calls == encode_metric(namespace, buckets, quantiles, expired, metric)
       IN  /\ emits' = calls
           /\ result' = EmitAll(result, calls)
    /\ before' = result
    /\ ops' = Append(ops, "encode_metric")
    /\ UNCHANGED inputs
    /\ UNCHANGED topVars

Next == EncodeHeader \/ EncodeMetric

Spec == Init /\ [][Next]_allVars

\* The collector used with metrics whose tag values hold quotes.
InitTags ==
    /\ \E inp \in QuotedInputs :
          /\ namespace = inp.namespace
          /\ buckets = inp.buckets
          /\ quantiles = inp.quantiles
          /\ expired = inp.expired
          /\ metric = inp.metric
          /\ supplied = inp.supplied
          /\ statistic = inp.statistic
    /\ result = <<>>
    /\ ops = <<>>
    /\ before = <<>>
    /\ emits = <<>>
    /\ TopIdle

SpecTags == InitTags /\ [][Next]_allVars

(***************************************************************************)
(* top::state::updater                                                     *)
(***************************************************************************)
\* Names of components; "ghost" is never a key of the State.
ComponentNames == {"source", "sink"}
EventNames == ComponentNames \cup {"ghost"}

\* i64 values of EventsProcessedTotal
EventValues == {0 - 1, 7}

EventsProcessedTotal(v) == [type |-> "EventsProcessedTotal", value |-> v]

\* A ComponentRow as the caller builds it before the updater starts.
ComponentRow(n) ==
    [name |-> n, component_type |-> "kind_of_" \o n,
     events_processed_total |-> 3, errors |-> 1, throughput |-> 2]

\* The State maps the updater may be started with.
InitialStates == { [n \in D |-> ComponentRow(n)] : D \in SUBSET ComponentNames }

\* An updater that sends the map to the listeners after every event.
HandleAlwaysSend(st, name, event_type) ==
    IF name \in DOMAIN st
    THEN [state |-> [st EXCEPT ![name].events_processed_total = event_type.value],
          send |-> TRUE]
    ELSE [state |-> st, send |-> TRUE]

\* The body of the select! branch for one received (name, event_type): the
\* State afterwards, and whether sender.send(state.clone()) is called.
Handle(st, name, event_type) ==
    IF name \in DOMAIN st
    THEN [state |-> [st EXCEPT ![name].events_processed_total = event_type.value],
          send |-> TRUE]
    ELSE [state |-> st, send |-> FALSE]

\* The collector is not in use.
EncoderIdle ==
    /\ namespace = None
    /\ buckets = <<>>
    /\ quantiles = <<>>
    /\ expired = FALSE
    /\ metric = MetricOf(None, None, "Absolute", CounterValue(0))
    /\ supplied = None
    /\ statistic = None
    /\ result = <<>>
    /\ ops = <<>>
    /\ before = <<>>
    /\ emits = <<>>

\* updater(state, rx): the broadcast channel is created and the task spawned.
InitTop ==
    /\ EncoderIdle
    /\ state \in InitialStates
    /\ initial = state
    /\ rx = <<>>
    /\ senders = TRUE
    /\ task = "running"
    /\ broadcast = <<>>
    /\ received = <<>>

\* A holder of an EventTx sends (name, EventsProcessedTotal(v)).
SendEvent ==
    /\ senders
    /\ Len(rx) < MaxQueue
    /\ Len(received) + Len(rx) < MaxEvents
    /\ \E n \in EventNames, v \in EventValues :
          rx' = Append(rx, <<n, EventsProcessedTotal(v)>>)
    /\ UNCHANGED <<state, senders, task, broadcast, initial, received>>
    /\ UNCHANGED vars

\* The last EventTx is dropped.
DropSenders ==
    /\ senders
    /\ senders' = FALSE
    /\ UNCHANGED <<state, rx, task, broadcast, initial, received>>
    /\ UNCHANGED vars

\* One turn of the loop: rx.recv() returns Some((name, event_type)).
Receive ==
    /\ task = "running"
    /\ rx # <<>>
    /\ LET msg == Head(rx)
           h == Handle(state, msg[1], msg[2])
       IN  /\ state' = h.state
           /\ broadcast' = IF h.send THEN Append(broadcast, h.state)
                           ELSE broadcast
           /\ received' = Append(received, msg)
    /\ rx' = Tail(rx)
    /\ UNCHANGED <<senders, task, initial>>
    /\ UNCHANGED vars

\* rx.recv() returns None (channel closed and drained): the pattern
\* Some(..) does not match, select! has no branch left and no else, and
\* the task panics.
ReceiveNone ==
    /\ task = "running"
    /\ rx = <<>>
    /\ ~senders
    /\ task' = "panicked"
    /\ UNCHANGED <<state, rx, senders, broadcast, initial, received>>
    /\ UNCHANGED vars

NextTop == SendEvent \/ DropSenders \/ Receive \/ ReceiveNone

SpecTop == InitTop /\ [][NextTop]_allVars

(***************************************************************************)
(* Properties                                                              *)
(***************************************************************************)
LastOp == IF ops = <<>> THEN "none" ELSE ops[Len(ops)]

\* The last operation was encode_metric on an Absolute metric of this shape.
Encoded(type) ==
    /\ LastOp = "encode_metric"
    /\ metric.kind = "Absolute"
    /\ metric.value.type = type

EncodedDistribution(stat) ==
    Encoded("Distribution") /\ metric.value.statistic = stat

RECURSIVE SumOver(_, _)
SumOver(I, f) ==
    IF I = {} THEN 0
    ELSE LET i == CHOOSE x \in I : TRUE IN f[i] + SumOver(I \ {i}, f)

StrictlyAscending(bs) == \A i \in 1..(Len(bs) - 1) : bs[i] < bs[i + 1]
Ascending(bs) == \A i \in 1..(Len(bs) - 1) : bs[i] <= bs[i + 1]

\* The weight of the samples of the metric whose value is at most b.
WeightUpTo(b) ==
    SumOver({k \in 1..Len(metric.value.values) : metric.value.values[k] <= b},
            metric.value.sample_rates)

TotalWeight ==
    SumOver(1..Len(metric.value.values), metric.value.sample_rates)

WeightedSum ==
    SumOver(1..Len(metric.value.values),
            [k \in 1..Len(metric.value.values) |->
                metric.value.values[k] * metric.value.sample_rates[k]])

IsSample(e, suffix, value, extra) ==
    e.suffix = suffix /\ e.value = value /\ e.extra = extra

\* C1: an Absolute Distribution/Histogram metric encoded against strictly
\* ascending buckets b_1..b_n emits exactly n+3 samples: for each i a _bucket
\* sample tagged le=b_i whose value is the weight of the samples with value
\* <= b_i, then _bucket le="+Inf" with the total weight, then _sum with the
\* weighted sum of the values, then _count with the total weight.
C1_DistributionHistogram ==
    (EncodedDistribution("Histogram") /\ StrictlyAscending(buckets)) =>
        LET n == Len(buckets)
        IN  /\ Len(emits) = n + 3
            /\ \A i \in 1..n :
                  IsSample(emits[i], SuffixBucket, AsF64(WeightUpTo(buckets[i])),
                           Some(<<TagLe, F64ToString(buckets[i])>>))
            /\ IsSample(emits[n + 1], SuffixBucket, AsF64(TotalWeight),
                        Some(<<TagLe, PlusInf>>))
            /\ IsSample(emits[n + 2], SuffixSum, WeightedSum, None)
            /\ IsSample(emits[n + 3], SuffixCount, AsF64(TotalWeight), None)

\* A histogram over three buckets with a sample on the middle bound, which
\* the middle bucket counts, and a sample above it.
C1_Witness ==
    /\ EncodedDistribution("Histogram")
    /\ StrictlyAscending(buckets)
    /\ Len(buckets) = 3
    /\ \E k \in 1..Len(metric.value.values) : metric.value.values[k] = buckets[2]
    /\ emits[1].value = 0
    /\ emits[2].value > 0
    /\ emits[2].value < emits[3].value

\* C2: for an Absolute Distribution/Histogram metric and ascending buckets,
\* the _bucket values are non-decreasing in the bucket index, none exceeds
\* the +Inf bucket, and the +Inf bucket is the total weight of the samples.
C2_HistogramCumulative ==
    (EncodedDistribution("Histogram") /\ Ascending(buckets)) =>
        LET n == Len(buckets)
        IN  /\ Len(emits) >= n + 1
            /\ \A i \in 1..(n + 1) : emits[i].suffix = SuffixBucket
            /\ \A i \in 1..n :
                  emits[i].extra = Some(<<TagLe, F64ToString(buckets[i])>>)
            /\ \A i \in 1..(n - 1) : emits[i].value <= emits[i + 1].value
            /\ \A i \in 1..n : emits[i].value <= emits[n + 1].value
            /\ emits[n + 1].extra = Some(<<TagLe, PlusInf>>)
            /\ emits[n + 1].value = AsF64(TotalWeight)

\* Bucket values that grow strictly and stay below the +Inf bucket.
C2_Witness ==
    /\ EncodedDistribution("Histogram")
    /\ Ascending(buckets)
    /\ Len(buckets) >= 2
    /\ 0 < emits[1].value
    /\ emits[1].value < emits[2].value
    /\ emits[2].value < emits[Len(buckets) + 1].value

\* C3: encode_metric on an Incremental metric, whatever its value, buckets,
\* quantiles and expired flag, calls emit zero times and leaves the output
\* buffer as it was before the call.
C3_IncrementalSkipped ==
    (LastOp = "encode_metric" /\ metric.kind = "Incremental") =>
        (emits = <<>> /\ result = before)

\* An Incremental metric encoded into a buffer that already holds a header.
C3_Witness ==
    /\ LastOp = "encode_metric"
    /\ metric.kind = "Incremental"
    /\ ops = <<"encode_header", "encode_metric">>
    /\ before # <<>>
    /\ result = before

\* C4: an Absolute AggregatedHistogram emits, for each index in ascending
\* order, a _bucket sample tagged le=buckets[i] whose value is counts[i] as it
\* stands, then _bucket le="+Inf" with the count field, then _sum with the
\* sum field and _count with the count field; the bucket list passed to
\* encode_metric plays no part.
C4_AggregatedHistogramVerbatim ==
    Encoded("AggregatedHistogram") =>
        LET v == metric.value
            n == Len(v.buckets)
        IN  /\ Len(emits) = n + 3
            /\ \A i \in 1..n :
                  IsSample(emits[i], SuffixBucket, AsF64(v.counts[i]),
                           Some(<<TagLe, F64ToString(v.buckets[i])>>))
            /\ IsSample(emits[n + 1], SuffixBucket, AsF64(v.count),
                        Some(<<TagLe, PlusInf>>))
            /\ IsSample(emits[n + 2], SuffixSum, v.sum, None)
            /\ IsSample(emits[n + 3], SuffixCount, AsF64(v.count), None)

\* The counts [1, 2, 3] of the test, encoded with an unrelated bucket list
\* as argument: the second bucket carries 2, not 1 + 2.
C4_Witness ==
    /\ Encoded("AggregatedHistogram")
    /\ buckets = <<0, 5>>
    /\ metric.value.counts = <<1, 2, 3>>
    /\ emits[2].value = AsF64(2)
    /\ emits[4].value = AsF64(metric.value.count)

\* C5: for an Absolute AggregatedHistogram the emitted _bucket le=buckets[i]
\* value is the running sum of counts[1..i], so that the emitted bucket
\* values are non-decreasing in i.
C5_AggregatedHistogramCumulative ==
    Encoded("AggregatedHistogram") =>
        LET v == metric.value
            n == Len(v.buckets)
        IN  /\ \A i \in 1..n :
                  emits[i].value = AsF64(SumOver(1..i, v.counts))
            /\ \A i \in 1..(n - 1) : emits[i].value <= emits[i + 1].value

\* C6: an Absolute Distribution/Summary metric emits, when the statistic
\* routine returns a result, one unsuffixed sample per (quantile, value) pair
\* of the result, tagged quantile=q, in the result's order, followed by _sum,
\* _count, _min, _max, _avg; when the routine returns nothing it emits _sum 0
\* then _count 0 with the metric's own tags.  It never emits zero samples.
C6_DistributionSummary ==
    EncodedDistribution("Summary") =>
        /\ emits # <<>>
        /\ IF IsSome(statistic)
           THEN LET st == Unwrap(statistic)
                    n == Len(st.quantiles)
                IN  /\ Len(emits) = n + 5
                    /\ \A i \in 1..n :
                          IsSample(emits[i], NoSuffix, st.quantiles[i][2],
                                   Some(<<TagQuantile,
                                          F64ToString(st.quantiles[i][1])>>))
                    /\ IsSample(emits[n + 1], SuffixSum, st.sum, None)
                    /\ IsSample(emits[n + 2], SuffixCount, AsF64(st.count), None)
                    /\ IsSample(emits[n + 3], SuffixMin, st.min, None)
                    /\ IsSample(emits[n + 4], SuffixMax, st.max, None)
                    /\ IsSample(emits[n + 5], SuffixAvg, st.avg, None)
           ELSE /\ Len(emits) = 2
                /\ IsSample(emits[1], SuffixSum, 0, None)
                /\ IsSample(emits[2], SuffixCount, 0, None)
                /\ \A i \in 1..2 : emits[i].tags = metric.tags

\* A tagged Summary for which the routine returns nothing: the frame is the
\* two zero samples, each with the tags of the metric.
C6_WitnessNothing ==
    /\ EncodedDistribution("Summary")
    /\ ~IsSome(statistic)
    /\ IsSome(metric.tags)
    /\ Len(emits) = 2
    /\ emits[1].tags = metric.tags

\* A Summary for which the routine returns two quantiles: seven samples.
C6_Witness ==
    /\ EncodedDistribution("Summary")
    /\ IsSome(statistic)
    /\ Len(Unwrap(statistic).quantiles) = 2
    /\ Len(emits) = 7

\* C7: an Absolute Counter, Gauge or Set emits exactly one sample, with empty
\* suffix, the metric's own tags and no extra tag; its value is the raw value
\* for Counter and Gauge, and for Set 0 when expired and the cardinality of
\* values otherwise.
C7_ScalarShapes ==
    (/\ LastOp = "encode_metric"
     /\ metric.kind = "Absolute"
     /\ metric.value.type \in {"Counter", "Gauge", "Set"}) =>
        /\ Len(emits) = 1
        /\ emits[1].suffix = NoSuffix
        /\ emits[1].tags = metric.tags
        /\ emits[1].extra = None
        /\ emits[1].value =
              IF metric.value.type = "Set"
              THEN IF expired THEN 0
                   ELSE AsF64(Cardinality(metric.value.values))
              ELSE metric.value.value

\* An expired Set of two members: the sample is 0.
C7_Witness ==
    /\ Encoded("Set")
    /\ expired
    /\ Cardinality(metric.value.values) = 2
    /\ emits[1].value = 0

\* C8: an Absolute AggregatedSummary emits one unsuffixed sample per index,
\* with value values[i] and tag quantile=quantiles[i], in index order, then
\* _sum with the sum field and _count with the count field, without quantile
\* tag; every sample carries the metric's own tags; the quantile list passed
\* to encode_metric plays no part.
C8_AggregatedSummaryVerbatim ==
    Encoded("AggregatedSummary") =>
        LET v == metric.value
            n == Len(v.quantiles)
        IN  /\ Len(emits) = n + 2
            /\ \A i \in 1..n :
                  IsSample(emits[i], NoSuffix, v.values[i],
                           Some(<<TagQuantile, F64ToString(v.quantiles[i])>>))
            /\ IsSample(emits[n + 1], SuffixSum, v.sum, None)
            /\ IsSample(emits[n + 2], SuffixCount, AsF64(v.count), None)
            /\ \A i \in 1..(n + 2) : emits[i].tags = metric.tags

\* A tagged AggregatedSummary of three quantiles, encoded with another
\* quantile list as argument.
C8_Witness ==
    /\ Encoded("AggregatedSummary")
    /\ IsSome(metric.tags)
    /\ quantiles = <<1>>
    /\ Len(metric.value.quantiles) = 3
    /\ Len(emits) = 5
    /\ emits[5].tags = metric.tags

\* The text the last operation appended to the buffer.
Appended == SubSeq(result, Len(before) + 1, Len(result))

RECURSIVE Concat(_)
Concat(texts) ==
    IF texts = <<>> THEN <<>> ELSE Head(texts) \o Concat(Tail(texts))

\* The arrangements of a list: the list read through a permutation.
Arrangements(list) ==
    { [i \in 1..Len(list) |-> list[f[i]]] :
        f \in { g \in [1..Len(list) -> 1..Len(list)] :
                  \A i, j \in 1..Len(list) : i # j => g[i] # g[j] } }

IsSorted(list) == \A i \in 1..(Len(list) - 1) : StrLeq(list[i], list[i + 1])

\* The pairs as supplied, followed by the extra pair if there is one, each
\* written k="v".
FormattedPairs(pairs, extra) ==
    [i \in 1..Len(pairs) |->
        pairs[i][1] \o <<"=", "\"">> \o pairs[i][2] \o <<"\"">>]
    \o (IF IsSome(extra)
        THEN << Unwrap(extra)[1] \o <<"=", "\"">> \o Unwrap(extra)[2] \o <<"\"">> >>
        ELSE <<>>)

\* The ascending arrangement of the formatted pairs, joined and in braces.
SortedTagText(pairs, extra) ==
    LET sorted == CHOOSE a \in Arrangements(FormattedPairs(pairs, extra)) :
                    IsSorted(a)
    IN  <<"{">> \o Join(sorted, <<",">>) \o <<"}">>

\* C9: when the metric has a tag mapping, each sample line carries, between
\* name+suffix and the value, the pairs of the mapping and the extra pair (if
\* any) written k="v", in ascending order of the written strings, the extra
\* pair sorted among them, joined by commas, in braces; the text is the same
\* for every order in which the tags were supplied; and encoding the same
\* metric a second time appends the same text again.
C9_TagsSorted ==
    (/\ LastOp = "encode_metric"
     /\ metric.kind = "Absolute"
     /\ IsSome(metric.tags)) =>
        /\ Appended =
              Concat([i \in 1..Len(emits) |->
                        emits[i].name \o emits[i].suffix
                        \o SortedTagText(Unwrap(supplied), emits[i].extra)
                        \o <<" ">> \o F64ToString(emits[i].value) \o <<"\n">>])
        /\ \A other \in Arrangements(Unwrap(supplied)) :
              EmitAll(<<>>, encode_metric(namespace, buckets, quantiles, expired,
                                          [metric EXCEPT !.tags =
                                              Some(BTreeCollect(other))]))
              = Appended
        /\ (ops = <<"encode_metric", "encode_metric">> => Appended = before)

\* A histogram with tags supplied as zone, code, encoded twice: the bucket
\* line reads code, le, zone, the extra pair in the middle.
C9_Witness ==
    /\ Encoded("AggregatedHistogram")
    /\ supplied = Some(<< << <<"z", "o", "n", "e">>, <<"a">> >>,
                          << <<"c", "o", "d", "e">>, <<"2", "0", "0">> >> >>)
    /\ ops = <<"encode_metric", "encode_metric">>
    /\ Appended = before
    /\ Len(emits) = 4
    /\ emits[1].extra = Some(<<TagLe, <<"1">>>>)
    /\ encode_tags(emits[1].tags, emits[1].extra) =
          <<"{">> \o FormatTag(<<"c", "o", "d", "e">>, <<"2", "0", "0">>)
          \o <<",">> \o FormatTag(TagLe, <<"1">>)
          \o <<",">> \o FormatTag(<<"z", "o", "n", "e">>, <<"a">>) \o <<"}">>

\* A sample for which no tag pair is rendered: the metric supplies no pair
\* and no extra tag is synthesized.
NoTagPairs(e) ==
    /\ ~IsSome(e.extra)
    /\ (IsSome(e.tags) => Unwrap(e.tags) = <<>>)

HasBrace(text) == \E i \in 1..Len(text) : text[i] \in {"{", "}"}

\* C10: a sample line has tag braces only when at least one tag pair is
\* rendered: when the metric supplies no tag pairs and no extra tag applies,
\* the line is name, suffix, one space, the value and a newline, without
\* "{" or "}".
C10_NoBracesWithoutPairs ==
    LastOp = "encode_metric" =>
        /\ Appended =
              Concat([i \in 1..Len(emits) |->
                        IF NoTagPairs(emits[i])
                        THEN emits[i].name \o emits[i].suffix \o <<" ">>
                             \o F64ToString(emits[i].value) \o <<"\n">>
                        ELSE emit(emits[i])])
        /\ \A i \in 1..Len(emits) :
              NoTagPairs(emits[i]) => ~HasBrace(emit(emits[i]))

\* The (key, value) pairs of a tag mapping together with the extra pair.
PairList(tags, extra) ==
    (IF IsSome(tags) THEN Unwrap(tags) ELSE <<>>)
    \o (IF IsSome(extra) THEN <<Unwrap(extra)>> ELSE <<>>)

\* Two lists hold the same collection of pairs.
SamePairs(l1, l2) == Len(l1) = Len(l2) /\ l1 \in Arrangements(l2)

\* The other (tags, extra) inputs a line is compared with.
OtherTagInputs ==
    ({None} \cup {Some(BTreeCollect(t)) : t \in QuotedVecs})
    \X {None, Some(<<TagLe, <<"1">>>>), Some(<<TagQuantile, <<"0", ".", "5">>>>)}

\* C11: the text is injective on tag sets: an input (tags, extra) whose
\* collection of (key, value) pairs differs from that of an emitted sample
\* is rendered differently by encode_tags, so a line with the same name,
\* suffix and value is byte-identical to the emitted line only if the tag
\* pairs are the same.
C11_TagTextInjective ==
    (LastOp = "encode_metric" /\ metric.kind = "Absolute") =>
        /\ Appended = Concat([i \in 1..Len(emits) |-> emit(emits[i])])
        /\ \A i \in 1..Len(emits) : \A other \in OtherTagInputs :
              ~SamePairs(PairList(other[1], other[2]),
                         PairList(emits[i].tags, emits[i].extra)) =>
                  /\ encode_tags(other[1], other[2])
                        # encode_tags(emits[i].tags, emits[i].extra)
                  /\ emit([emits[i] EXCEPT !.tags = other[1],
                                           !.extra = other[2]])
                        # emit(emits[i])

\* The declared type the header is to carry for the metric.
DeclaredType ==
    LET v == metric.value
    IN  IF v.type = "Counter" THEN <<"c", "o", "u", "n", "t", "e", "r">>
        ELSE IF v.type \in {"Gauge", "Set"} THEN <<"g", "a", "u", "g", "e">>
        ELSE IF v.type = "AggregatedHistogram"
                \/ (v.type = "Distribution" /\ v.statistic = "Histogram")
        THEN <<"h", "i", "s", "t", "o", "g", "r", "a", "m">>
        ELSE <<"s", "u", "m", "m", "a", "r", "y">>

\* "# HELP <fullname> <name>" and "# TYPE <fullname> <type>", a line each.
HeaderLines(fullname) ==
    <<"#", " ", "H", "E", "L", "P", " ">> \o fullname \o <<" ">> \o metric.name \o <<"\n">>
    \o <<"#", " ", "T", "Y", "P", "E", " ">> \o fullname \o <<" ">> \o DeclaredType \o <<"\n">>

CountNewlines(text) == Cardinality({i \in 1..Len(text) : text[i] = "\n"})

\* C12: encode_header appends exactly two lines, "# HELP <fullname> <name>"
\* then "# TYPE <fullname> <type>", whatever the kind of the metric; the
\* fullname is the name encode_metric gives its samples, and the type is
\* counter for Counter, gauge for Gauge and Set, histogram for
\* Distribution/Histogram and AggregatedHistogram, summary for
\* Distribution/Summary and AggregatedSummary.
C12_HeaderLines ==
    /\ LastOp = "encode_header" =>
          /\ Appended = HeaderLines(encode_namespace(namespace, "_", metric.name))
          /\ CountNewlines(Appended) = 2
    /\ ops = <<"encode_header", "encode_metric">> =>
          \A i \in 1..Len(emits) : before = HeaderLines(emits[i].name)

\* The header of an Incremental Set under the namespace "vector":
\* "# HELP vector_hits hits" and "# TYPE vector_hits gauge".
C12_Witness ==
    /\ LastOp = "encode_header"
    /\ metric.kind = "Incremental"
    /\ metric.value.type = "Set"
    /\ namespace = Some(NsVector)
    /\ Appended =
          <<"#", " ", "H", "E", "L", "P", " ", "v", "e", "c", "t", "o", "r", "_", "h", "i", "t", "s", " ", "h", "i", "t", "s", "\n">>
          \o <<"#", " ", "T", "Y", "P", "E", " ", "v", "e", "c", "t", "o", "r", "_", "h", "i", "t", "s", " ", "g", "a", "u", "g", "e", "\n">>

\* The first n events of a log.
Prefix(log, n) == SubSeq(log, 1, n)

\* The places of a log holding an event for a component of the initial State.
KnownPlaces(log) == { j \in 1..Len(log) : log[j][1] \in DOMAIN initial }

\* The places of a log holding an event named n.
PlacesOf(log, n) == { j \in 1..Len(log) : log[j][1] = n }

Last(S) == CHOOSE j \in S : \A k \in S : k <= j

\* The State the claim predicts after the events of a log: the initial rows,
\* each with the value of the last event that named it.
Predicted(log) ==
    [n \in DOMAIN initial |->
        IF PlacesOf(log, n) = {} THEN initial[n]
        ELSE [name |-> initial[n].name,
              component_type |-> initial[n].component_type,
              events_processed_total |-> log[Last(PlacesOf(log, n))][2].value,
              errors |-> initial[n].errors,
              throughput |-> initial[n].throughput]]

\* The place in a log of its k-th event for a known component.
KthKnown(log, k) ==
    CHOOSE j \in KnownPlaces(log) :
        Cardinality({ i \in KnownPlaces(log) : i <= j }) = k

\* C13: after any sequence of received events the State has the initial
\* component names; an event for an unknown name changes nothing and is not
\* broadcast; an event for a known name sets only that row's
\* events_processed_total and is followed by exactly one broadcast of the
\* updated State, so the broadcasts follow the order of the received events.
C13_UpdaterBroadcasts ==
    task # "idle" =>
        /\ DOMAIN state = DOMAIN initial
        /\ state = Predicted(received)
        /\ Len(broadcast) = Cardinality(KnownPlaces(received))
        /\ \A k \in 1..Len(broadcast) :
              broadcast[k] = Predicted(Prefix(received, KthKnown(received, k)))

\* An unknown name, then two known rows updated one after the other.
C13_Witness ==
    /\ DOMAIN initial = ComponentNames
    /\ Len(received) = 3
    /\ received[1][1] = "ghost"
    /\ received[2] = <<"sink", EventsProcessedTotal(7)>>
    /\ received[3] = <<"source", EventsProcessedTotal(0 - 1)>>
    /\ Len(broadcast) = 2
    /\ broadcast[1]["sink"].events_processed_total = 7
    /\ broadcast[1]["source"].events_processed_total = 3
    /\ broadcast[2]["source"].events_processed_total = 0 - 1
    /\ state = broadcast[2]

====
